---- MODULE Spec2Model ----
(***************************************************************************)
(* Image-processing pipeline: five Lambda handlers                         *)
(*   image-validation -> generate-thumbnails -> extract-metadata ->        *)
(*   store-results, and the out-of-band status-check read path.            *)
(* Strings the handlers take apart (object keys, extensions, thumbnail     *)
(* keys) are sequences of one-character strings; strings that are only     *)
(* passed around (status values, error types) are TLA+ strings.            *)
(***************************************************************************)
EXTENDS Integers, Sequences, FiniteSets, TLC

VARIABLES
    env,        \* process-wide configuration read from os.environ at import
    trigger,    \* the raw event handed to the validator
    objects,    \* keys present in the uploads bucket
    image,      \* what PIL decodes from the uploaded object
    pc,         \* the stage the orchestrator invokes next
    state,      \* the accumulated state: output of the last successful stage
    raised,     \* the exception the failing stage raised, or NoError
    reads,      \* get_object / detect_labels requests made so far (where two
                \* runs are told apart, every request: their writes too)
    uploaded,   \* objects written to the thumbnails bucket
    putLog,     \* items handed to table.put_item, in order
    table,      \* the DynamoDB table: a set of items
    now,        \* int(time.time())
    final,      \* what store-results returned last, or NoOutput
    response,   \* what status-check returned last, or NoResponse
    query       \* the request status-check answered last, or NoQuery

vars == <<env, trigger, objects, image, pc, state, raised, reads, uploaded,
          putLog, table, now, final, response, query>>

-----------------------------------------------------------------------------
(* Bounds of the model *)

\* the clock runs from 1 to MaxTime
MaxTime == 3
\* extracted metadata is nested up to MaxDepth containers deep
MaxDepth == 2
\* source images are 1..MaxSrcDim pixels wide and high (plus the 800x600 case)
MaxSrcDim == 8

-----------------------------------------------------------------------------
(* Character strings *)

\* a TLA+ sequence of one-character strings for each literal the code uses
Chars_jpg == <<".", "j", "p", "g">>
Chars_jpeg == <<".", "j", "p", "e", "g">>
Chars_png == <<".", "p", "n", "g">>
Chars_thumbnails == <<"t", "h", "u", "m", "b", "n", "a", "i", "l", "s", "/">>
Chars_s3 == <<"s", "3", ":", "/", "/">>

UpperChars == <<"A", "B", "C", "D", "E", "F", "G", "J", "N", "P">>
LowerChars == <<"a", "b", "c", "d", "e", "f", "g", "j", "n", "p">>

\* str.lower() on one character
LowerChar(c) ==
    IF \E i \in 1..Len(UpperChars) : UpperChars[i] = c
    THEN LowerChars[CHOOSE i \in 1..Len(UpperChars) : UpperChars[i] = c]
    ELSE c

\* str.lower()
Lower(s) == [i \in 1..Len(s) |-> LowerChar(s[i])]

HexDigits == <<"0", "1", "2", "3", "4", "5", "6", "7", "8", "9",
               "a", "b", "c", "d", "e", "f">>

IsHex(c) == \E i \in 1..Len(HexDigits) : HexDigits[i] = LowerChar(c)

HexVal(c) == (CHOOSE i \in 1..Len(HexDigits) : HexDigits[i] = LowerChar(c)) - 1

\* chr() on the code points the keys of the model can name; any other code
\* point is the one character "?"
Chr(n) ==
    CASE n = 32 -> " "
      [] n = 37 -> "%"
      [] n = 43 -> "+"
      [] n = 46 -> "."
      [] n = 47 -> "/"
      [] n = 50 -> "2"
      [] n = 53 -> "5"
      [] OTHER -> "?"

\* urllib.parse.unquote: one left-to-right pass; "%XY" with two hex digits
\* becomes the character of that code, any other "%" stays
RECURSIVE unquote(_)
unquote(s) ==
    IF s = <<>> THEN <<>>
    ELSE IF s[1] = "%" /\ Len(s) >= 3 /\ IsHex(s[2]) /\ IsHex(s[3])
         THEN <<Chr(16 * HexVal(s[2]) + HexVal(s[3]))>>
              \o unquote(SubSeq(s, 4, Len(s)))
         ELSE <<s[1]>> \o unquote(Tail(s))

\* urllib.parse.unquote_plus: "+" becomes " ", then unquote
unquote_plus(s) ==
    unquote([i \in 1..Len(s) |-> IF s[i] = "+" THEN " " ELSE s[i]])

\* str.rfind(c): the last index of c in s, 0 when absent (Python's -1)
RFind(s, c) ==
    IF \E i \in 1..Len(s) : s[i] = c
    THEN CHOOSE i \in 1..Len(s) : s[i] = c /\ \A j \in (i+1)..Len(s) : s[j] # c
    ELSE 0

\* os.path.splitext: the extension starts at the last dot of the last path
\* segment, unless only dots precede it in that segment
SplitExt(p) ==
    LET sepIndex == RFind(p, "/")
        dotIndex == RFind(p, ".")
    IN  IF dotIndex > sepIndex
           /\ \E i \in (sepIndex + 1)..(dotIndex - 1) : p[i] # "."
        THEN <<SubSeq(p, 1, dotIndex - 1), SubSeq(p, dotIndex, Len(p))>>
        ELSE <<p, <<>>>>

\* os.path.basename
Basename(p) == SubSeq(p, RFind(p, "/") + 1, Len(p))

DecDigits == <<"0", "1", "2", "3", "4", "5", "6", "7", "8", "9">>

\* str(n) of a non-negative integer, as characters
RECURSIVE Str(_)
Str(n) ==
    IF n < 10 THEN <<DecDigits[n + 1]>>
    ELSE Str(n \div 10) \o <<DecDigits[(n % 10) + 1]>>

-----------------------------------------------------------------------------
(* Python values, as the handlers and the json module see them.            *)
(* A value is a tuple whose first element names its Python type.           *)

PyNone == <<"null">>
PyStr(s) == <<"str", s>>
PyBool(b) == <<"bool", b>>
PyInt(n) == <<"int", n>>
\* a finite float whose repr() has `scale` fraction digits: mant / 10^scale
PyFloat(mant, scale) == <<"float", mant, scale>>
\* float('nan'), float('inf'), float('-inf'), named as json writes them
PyNonFinite(name) == <<"nonfinite", name>>
PyList(seq) == <<"list", seq>>
PyDict(fn) == <<"dict", fn>>
\* decimal.Decimal with the given coefficient and exponent: coeff * 10^exp
Decimal(coeff, exp) == <<"decimal", coeff, exp>>

\* dict.get(key), None when the key is absent
Get(d, key) == IF key \in DOMAIN d THEN d[key] ELSE PyNone

\* dict.get(key, default)
GetOr(d, key, default) == IF key \in DOMAIN d THEN d[key] ELSE default

RECURSIVE Pow10(_)
Pow10(n) == IF n <= 0 THEN 1 ELSE 10 * Pow10(n - 1)

Abs(n) == IF n < 0 THEN -n ELSE n

\* the decimal digits of n, left-padded with zeros to `width` characters
RECURSIVE Digits(_, _)
Digits(n, width) ==
    IF width <= 0 THEN <<>>
    ELSE Digits(n \div 10, width - 1) \o <<DecDigits[(n % 10) + 1]>>

\* int(text) of a sequence of decimal digits
RECURSIVE DigitsVal(_)
DigitsVal(ds) ==
    IF ds = <<>> THEN 0
    ELSE 10 * DigitsVal(SubSeq(ds, 1, Len(ds) - 1))
         + ((CHOOSE i \in 1..10 : DecDigits[i] = ds[Len(ds)]) - 1)

-----------------------------------------------------------------------------
(* JSON text, as a tree of tokens.  A number token keeps its spelling:     *)
(* sign, integer digits, fraction digits (none for an integer literal).    *)

JsonNumber(neg, intDigits, fracDigits) == <<"number", neg, intDigits, fracDigits>>
JsonLiteral(word) == <<"literal", word>>
JsonString(s) == <<"string", s>>
TypeError == <<"raise", "TypeError">>

\* int.__repr__, which json.dumps uses for an int
IntRepr(n) == JsonNumber(n < 0, Str(Abs(n)), <<>>)

\* float.__repr__, which json.dumps uses for a finite float
FloatRepr(mant, scale) ==
    JsonNumber(mant < 0, Str(Abs(mant) \div Pow10(scale)),
               Digits(Abs(mant) % Pow10(scale), scale))

\* store-results DecimalEncoder.default(o): json calls it only for an object
\* of a type the encoder does not serialize itself
DecimalEncoder_default(o) ==
    CASE o[1] = "nonfinite" -> PyStr(o[2])
      [] o[1] = "float" -> Decimal(o[2], -o[3])
      [] o[1] = "int" -> Decimal(o[2], 0)
      [] OTHER -> TypeError

\* status-check DecimalEncoder.default(o)
StatusDecimalEncoder_default(o) ==
    IF o[1] = "decimal"
    THEN IF o[3] >= 0 THEN PyInt(o[2] * Pow10(o[3]))
         ELSE IF o[2] % Pow10(-o[3]) = 0 THEN PyInt(o[2] \div Pow10(-o[3]))
         ELSE PyFloat(o[2], -o[3])
    ELSE TypeError

\* json.dumps(o, cls=...): str, int, float, bool, None, list and dict are
\* serialized by the encoder itself (a non-finite float as NaN, Infinity,
\* -Infinity: allow_nan is on); `useStatusEncoder` picks the default() hook
\* that gets every other object
RECURSIVE JsonDumps(_, _)
JsonDumps(o, useStatusEncoder) ==
    CASE o[1] = "str" -> JsonString(o[2])
      [] o[1] = "null" -> JsonLiteral("null")
      [] o[1] = "bool" -> JsonLiteral(IF o[2] THEN "true" ELSE "false")
      [] o[1] = "int" -> IntRepr(o[2])
      [] o[1] = "float" -> FloatRepr(o[2], o[3])
      [] o[1] = "nonfinite" -> JsonLiteral(o[2])
      [] o[1] = "list" ->
            <<"array", [i \in DOMAIN o[2] |-> JsonDumps(o[2][i], useStatusEncoder)]>>
      [] o[1] = "dict" ->
            <<"object", [k \in DOMAIN o[2] |-> JsonDumps(o[2][k], useStatusEncoder)]>>
      [] OTHER ->
            LET r == IF useStatusEncoder THEN StatusDecimalEncoder_default(o)
                     ELSE DecimalEncoder_default(o)
            IN  IF r = TypeError THEN r ELSE JsonDumps(r, useStatusEncoder)

\* json.loads without parse_int, as store-results called it before: the
\* integer stays an int (faulty variant of ParseIntDecimal)
ParseIntDecimal_Native(neg, intDigits) ==
    PyInt((IF neg THEN -1 ELSE 1) * DigitsVal(intDigits))

\* json.loads on an integer literal with parse_int=decimal.Decimal
ParseIntDecimal(neg, intDigits) ==
    Decimal((IF neg THEN -1 ELSE 1) * DigitsVal(intDigits), 0)

\* json.loads on a literal with a fraction, parse_float=decimal.Decimal:
\* Decimal(text), the digits as written
ParseFloatDecimal(neg, intDigits, fracDigits) ==
    Decimal((IF neg THEN -1 ELSE 1) * DigitsVal(intDigits \o fracDigits),
            -Len(fracDigits))

\* json.loads(text, parse_float=decimal.Decimal, parse_int=decimal.Decimal):
\* the scanner hands a number with a fraction to parse_float, one without to
\* parse_int, and NaN, Infinity, -Infinity to parse_constant (left at its
\* default: the float)
RECURSIVE JsonLoads(_)
JsonLoads(j) ==
    CASE j[1] = "string" -> PyStr(j[2])
      [] j[1] = "number" ->
            IF j[4] = <<>> THEN ParseIntDecimal(j[2], j[3])
            ELSE ParseFloatDecimal(j[2], j[3], j[4])
      [] j[1] = "literal" ->
            CASE j[2] = "null" -> PyNone
              [] j[2] = "true" -> PyBool(TRUE)
              [] j[2] = "false" -> PyBool(FALSE)
              [] OTHER -> PyNonFinite(j[2])
      [] j[1] = "array" -> PyList([i \in DOMAIN j[2] |-> JsonLoads(j[2][i])])
      [] j[1] = "object" -> PyDict([k \in DOMAIN j[2] |-> JsonLoads(j[2][k])])

\* whether a native float occurs anywhere in a value
RECURSIVE HasFloat(_)
HasFloat(o) ==
    CASE o[1] \in {"float", "nonfinite"} -> TRUE
      [] o[1] = "list" -> \E i \in DOMAIN o[2] : HasFloat(o[2][i])
      [] o[1] = "dict" -> \E k \in DOMAIN o[2] : HasFloat(o[2][k])
      [] OTHER -> FALSE

\* whether serialization hit an object no encoder takes
RECURSIVE JsonRaises(_)
JsonRaises(j) ==
    CASE j = TypeError -> TRUE
      [] j[1] \in {"array", "object"} -> \E k \in DOMAIN j[2] : JsonRaises(j[2][k])
      [] OTHER -> FALSE

-----------------------------------------------------------------------------
(* What a handler invocation yields: the state it returns or the exception *)
(* it raises, with the object-store traffic it caused.                     *)

NoError == [type |-> "none", msg |-> "", args |-> <<>>]
NoState == <<>>

Exception(type, msg, args) == [type |-> type, msg |-> msg, args |-> args]

Returns(out, gets, puts) ==
    [ok |-> TRUE, out |-> out, exc |-> NoError, gets |-> gets, puts |-> puts]

Raises(exc, gets, puts) ==
    [ok |-> FALSE, out |-> NoState, exc |-> exc, gets |-> gets, puts |-> puts]

-----------------------------------------------------------------------------
(* image-validation-lambda *)

SUPPORTED_IMAGE_TYPES == <<Chars_jpg, Chars_jpeg, Chars_png>>

InSeq(x, seq) == \E i \in 1..Len(seq) : seq[i] = x

\* event['bucket']['name'] when event has a dict under 'bucket' holding
\* 'name', else None; a value the code treats as false (None, '') is <<>>
TriggerBucketName(event) ==
    IF "bucket" \in DOMAIN event /\ event["bucket"][1] = "dict"
       /\ "name" \in DOMAIN event["bucket"][2]
    THEN event["bucket"][2]["name"][2]
    ELSE <<>>

\* event['object']['key'] likewise
TriggerObjectKey(event) ==
    IF "object" \in DOMAIN event /\ event["object"][1] = "dict"
       /\ "key" \in DOMAIN event["object"][2]
    THEN event["object"][2]["key"][2]
    ELSE <<>>

\* the key the validator works with: the event's key, unquoted
ValidatorObjectKey(raw) == unquote_plus(raw)

\* a validator that compares the extension as written (faulty variant of FileExtension)
FileExtension_CaseSensitive(object_key) == SplitExt(object_key)[2]

\* file_extension: the extension of the lower-cased key
FileExtension(object_key) == SplitExt(Lower(object_key))[2]

\* lambda_handler(event, context) of image-validation-lambda
ValidateImage(event) ==
    LET bucket_name == TriggerBucketName(event)
        raw_key == TriggerObjectKey(event)
    IN  IF bucket_name = <<>> \/ raw_key = <<>>
        THEN Raises(Exception("ValueError",
                 "S3 bucket name or object key not found in the expected event structure.",
                 <<>>), <<>>, <<>>)
        ELSE
        LET object_key == ValidatorObjectKey(raw_key)
            file_extension == FileExtension(object_key)
        IN  IF InSeq(file_extension, SUPPORTED_IMAGE_TYPES)
            THEN Returns([s3_bucket |-> PyStr(bucket_name),
                          s3_key |-> PyStr(object_key),
                          image_type |-> PyStr(file_extension),
                          validation_status |-> PyStr("SUCCESS")], <<>>, <<>>)
            ELSE Raises(Exception("ValueError", "Unsupported image type",
                                  <<file_extension>> \o SUPPORTED_IMAGE_TYPES),
                        <<>>, <<>>)

-----------------------------------------------------------------------------
(* generate-thumbnails-lambda *)

Chars_JPEG == <<"J", "P", "E", "G">>
Chars_PNG == <<"P", "N", "G">>
Chars_GIF == <<"G", "I", "F">>

\* THUMBNAIL_SIZES: the pairs of THUMBNAIL_SIZES_STR that parse as two
\* integers; a pair that does not is <<>> in env and is skipped
THUMBNAIL_SIZES == SelectSeq(env.THUMBNAIL_SIZES_STR, LAMBDA pr : Len(pr) = 2)

\* the image's own format kept whatever it is (faulty variant of OutputFormat)
OutputFormat_NoFallback(format) == IF format = <<>> THEN Chars_JPEG ELSE format

\* the format thumbnails are saved in: the image's own if it is JPEG or PNG,
\* else JPEG (img.format is None, here <<>>, for an image PIL built itself)
OutputFormat(format) ==
    LET original_format == IF format = <<>> THEN Chars_JPEG ELSE format
    IN  IF original_format \in {Chars_JPEG, Chars_PNG}
        THEN original_format ELSE Chars_JPEG

\* PIL's Image.MIME on the two formats OutputFormat yields
Mime(format) ==
    IF format = Chars_JPEG THEN "image/jpeg"
    ELSE IF format = Chars_PNG THEN "image/png"
    ELSE "KeyError"

\* round_aspect of PIL's Image.thumbnail for the width, the height y kept:
\* of floor and ceil of y * srcW / srcH, the one whose ratio to y is nearer
\* the source's (floor on a tie), at least 1
RoundAspectWidth(srcW, srcH, y) ==
    LET lo == (y * srcW) \div srcH
        hi == IF (y * srcW) % srcH = 0 THEN lo ELSE lo + 1
        pick == IF Abs(srcW * y - lo * srcH) <= Abs(srcW * y - hi * srcH)
                THEN lo ELSE hi
    IN  IF pick < 1 THEN 1 ELSE pick

\* round_aspect for the height, the width x kept; the key of 0 is 0
RoundAspectHeight(srcW, srcH, x) ==
    LET lo == (x * srcH) \div srcW
        hi == IF (x * srcH) % srcW = 0 THEN lo ELSE lo + 1
        pick == IF lo = 0 THEN lo
                ELSE IF Abs(srcW * lo - x * srcH) * hi
                        <= Abs(srcW * hi - x * srcH) * lo
                     THEN lo ELSE hi
    IN  IF pick < 1 THEN 1 ELSE pick

\* a resize to the box itself, aspect ratio ignored (faulty variant of ThumbnailSize)
ThumbnailSize_Stretch(srcW, srcH, width, height) ==
    IF width >= srcW /\ height >= srcH THEN <<srcW, srcH>> ELSE <<width, height>>

\* img_copy.thumbnail((width, height)): the size of the image afterwards.
\* An image that already fits the box is left as it is.
ThumbnailSize(srcW, srcH, width, height) ==
    IF width >= srcW /\ height >= srcH THEN <<srcW, srcH>>
    ELSE IF width * srcH >= srcW * height
         THEN <<RoundAspectWidth(srcW, srcH, height), height>>
         ELSE <<width, RoundAspectHeight(srcW, srcH, width)>>

\* the image mode that is saved: RGBA is converted to RGB for a JPEG
SavedMode(format, mode) ==
    IF format = Chars_JPEG /\ mode = "RGBA" THEN "RGB" ELSE mode

\* the modes PIL's JPEG and PNG encoders write; save() raises OSError on
\* any other
WritableModes(format) ==
    IF format = Chars_JPEG THEN {"1", "L", "RGB", "CMYK", "YCbCr"}
    ELSE {"1", "L", "LA", "I", "P", "RGB", "RGBA"}

\* base_filename
BaseFilename(key) == SplitExt(Basename(key))[1]

\* thumbnail_key
ThumbnailKey(key, width, height, format) ==
    Chars_thumbnails \o BaseFilename(key) \o <<"_">> \o Str(width) \o <<"x">>
        \o Str(height) \o <<".">> \o Lower(format)

\* f"{width}x{height}"
SizeLabel(width, height) == Str(width) \o <<"x">> \o Str(height)

\* f"s3://{bucket}/{key}"
S3Url(bucket, key) == Chars_s3 \o bucket \o <<"/">> \o key

\* the put_object request of one box
ThumbnailObject(key, box, format) ==
    LET size == ThumbnailSize(image.width, image.height, box[1], box[2])
    IN  [bucket |-> env.THUMBNAILS_S3_BUCKET,
         key |-> ThumbnailKey(key, box[1], box[2], format),
         format |-> format,
         contentType |-> Mime(format),
         mode |-> SavedMode(format, image.mode),
         width |-> size[1], height |-> size[2],
         box |-> box]

\* thumbnail_locations after the boxes 1..n of the loop
RECURSIVE ThumbnailLocations(_, _, _)
ThumbnailLocations(key, format, n) ==
    IF n = 0 THEN <<>>
    ELSE LET box == THUMBNAIL_SIZES[n]
             obj == ThumbnailObject(key, box, format)
         IN  (SizeLabel(box[1], box[2]) :> PyStr(S3Url(obj.bucket, obj.key)))
             @@ ThumbnailLocations(key, format, n - 1)

\* the box the loop stops at: the first one if PIL cannot write the mode,
\* else the box (none: 0) where an encoder or store error strikes
StopsAt(format, failAt) ==
    IF THUMBNAIL_SIZES # <<>>
       /\ SavedMode(format, image.mode) \notin WritableModes(format)
    THEN 1 ELSE failAt

\* an output built as a new dict of the source location and the thumbnails
\* instead of a copy of the event (faulty variant of ThumbnailsOutput)
ThumbnailsOutput_NewDict(event, locations) ==
    [s3_bucket |-> event["s3_bucket"], s3_key |-> event["s3_key"],
     thumbnails |-> PyDict(locations),
     thumbnail_generation_status |-> PyStr("SUCCESS")]

\* what the stage returns when every box went through
ThumbnailsOutput(event, locations) ==
    ("thumbnails" :> PyDict(locations))
    @@ ("thumbnail_generation_status" :> PyStr("SUCCESS"))
    @@ event

\* the exception the stage re-raises when a box fails: PIL's or botocore's
BoxFailure(failKind, box) ==
    IF failKind = "save" THEN Exception("OSError", "cannot write image", <<>>)
    ELSE Exception("ClientError", "An error occurred when calling the PutObject operation", <<>>)

\* a handler whose except block does not re-raise: it returns what the loop
\* had done when a box failed (faulty variant of GenerateThumbnails)
GenerateThumbnails_NoReraise(event, failAt, failKind) ==
    IF env.THUMBNAILS_S3_BUCKET = <<>> \/ ~ {"s3_bucket", "s3_key"} \subseteq DOMAIN event
    THEN Raises(Exception("EnvironmentError", "", <<>>), <<>>, <<>>)
    ELSE
    LET original_key_unquoted == unquote_plus(event["s3_key"][2])
        get == [op |-> "get_object", bucket |-> event["s3_bucket"][2],
                key |-> original_key_unquoted]
    IN  IF original_key_unquoted \notin objects \/ ~ image.decodable
        THEN Raises(Exception("ClientError", "NoSuchKey", <<>>), <<get>>, <<>>)
        ELSE
        LET format == OutputFormat(image.format)
            stop == StopsAt(format, failAt)
            done == IF stop = 0 THEN Len(THUMBNAIL_SIZES) ELSE stop - 1
            puts == [i \in 1..done |->
                        ThumbnailObject(original_key_unquoted, THUMBNAIL_SIZES[i], format)]
        IN  Returns(ThumbnailsOutput(event,
                        ThumbnailLocations(original_key_unquoted, format, done)),
                    <<get>>, puts)

\* lambda_handler(event, context) of generate-thumbnails-lambda.  failAt and
\* failKind are the environment's choice of where an error strikes.
GenerateThumbnails(event, failAt, failKind) ==
    IF env.THUMBNAILS_S3_BUCKET = <<>>
    THEN Raises(Exception("EnvironmentError",
             "THUMBNAILS_S3_BUCKET environment variable is not configured.", <<>>),
             <<>>, <<>>)
    ELSE IF ~ {"s3_bucket", "s3_key"} \subseteq DOMAIN event
    THEN Raises(Exception("KeyError", "s3_bucket or s3_key", <<>>), <<>>, <<>>)
    ELSE
    LET original_bucket == event["s3_bucket"][2]
        original_key_unquoted == unquote_plus(event["s3_key"][2])
        get == [op |-> "get_object", bucket |-> original_bucket,
                key |-> original_key_unquoted]
    IN  IF original_key_unquoted \notin objects
        THEN Raises(Exception("ClientError", "NoSuchKey", <<>>), <<get>>, <<>>)
        ELSE IF ~ image.decodable
        THEN Raises(Exception("UnidentifiedImageError", "cannot identify image file", <<>>),
                    <<get>>, <<>>)
        ELSE
        LET format == OutputFormat(image.format)
            stop == StopsAt(format, failAt)
            kind == IF SavedMode(format, image.mode) \notin WritableModes(format)
                    THEN "save" ELSE failKind
            done == IF stop = 0 THEN Len(THUMBNAIL_SIZES) ELSE stop - 1
            puts == [i \in 1..done |->
                        ThumbnailObject(original_key_unquoted, THUMBNAIL_SIZES[i], format)]
        IN  IF stop = 0
            THEN Returns(ThumbnailsOutput(event,
                             ThumbnailLocations(original_key_unquoted, format, done)),
                         <<get>>, puts)
            ELSE Raises(BoxFailure(kind, THUMBNAIL_SIZES[stop]), <<get>>, puts)

-----------------------------------------------------------------------------
(* extract-metadata-lambda *)

\* the detect_labels request: MaxLabels=10, MinConfidence=75
DetectLabelsRequest(bucket, key) ==
    [op |-> "detect_labels", bucket |-> bucket, key |-> key]

\* metadata: what Pillow reads from the image
BasicMetadata(key) ==
    [filename |-> PyStr(Basename(key)),
     filesize_bytes |-> PyInt(image.bytes),
     format |-> IF image.format = <<>> THEN PyNone ELSE PyStr(image.format),
     width_pixels |-> PyInt(image.width),
     height_pixels |-> PyInt(image.height),
     mode |-> PyStr(image.mode)]

\* metadata after the Rekognition block: rek is <<"labels", list>> for an
\* answer, <<"error", text>> when detect_labels raised
WithRekognition(metadata, rek) ==
    IF rek[1] = "labels"
    THEN ("rekognition_labels" :>
            PyList([i \in DOMAIN rek[2] |->
                      PyDict([Name |-> PyStr(rek[2][i].Name),
                              Confidence |-> rek[2][i].Confidence])]))
         @@ metadata
    ELSE ("rekognition_error" :> PyStr(rek[2])) @@ metadata

\* a handler without the inner try: the exception of detect_labels reaches
\* the outer except block and is re-raised (faulty variant of ExtractMetadata)
ExtractMetadata_LabelFailureFatal(event, rek) ==
    IF ~ {"s3_bucket", "s3_key"} \subseteq DOMAIN event
    THEN Raises(Exception("KeyError", "s3_bucket or s3_key", <<>>), <<>>, <<>>)
    ELSE
    LET original_bucket == event["s3_bucket"][2]
        original_key_unquoted == unquote_plus(event["s3_key"][2])
        get == [op |-> "get_object", bucket |-> original_bucket,
                key |-> original_key_unquoted]
        ask == [answer |-> rek] @@ DetectLabelsRequest(original_bucket, original_key_unquoted)
    IN  IF original_key_unquoted \notin objects \/ ~ image.decodable
        THEN Raises(Exception("ClientError", "NoSuchKey", <<>>), <<get>>, <<>>)
        ELSE IF env.USE_REKOGNITION /\ rek[1] = "error"
        THEN Raises(Exception(rek[2], "", <<>>), <<get, ask>>, <<>>)
        ELSE
        LET basic == BasicMetadata(original_key_unquoted)
        IN  Returns(("extracted_metadata" :>
                        PyDict(IF env.USE_REKOGNITION THEN WithRekognition(basic, rek)
                               ELSE basic))
                    @@ ("metadata_extraction_status" :> PyStr("SUCCESS"))
                    @@ event,
                    IF env.USE_REKOGNITION THEN <<get, ask>> ELSE <<get>>, <<>>)

\* lambda_handler(event, context) of extract-metadata-lambda.  A logged
\* detect_labels request carries the answer it got.
ExtractMetadata(event, rek) ==
    IF ~ {"s3_bucket", "s3_key"} \subseteq DOMAIN event
    THEN Raises(Exception("KeyError", "s3_bucket or s3_key", <<>>), <<>>, <<>>)
    ELSE
    LET original_bucket == event["s3_bucket"][2]
        original_key_unquoted == unquote_plus(event["s3_key"][2])
        get == [op |-> "get_object", bucket |-> original_bucket,
                key |-> original_key_unquoted]
    IN  IF original_key_unquoted \notin objects
        THEN Raises(Exception("ClientError", "NoSuchKey", <<>>), <<get>>, <<>>)
        ELSE IF ~ image.decodable
        THEN Raises(Exception("UnidentifiedImageError", "cannot identify image file", <<>>),
                    <<get>>, <<>>)
        ELSE
        LET basic == BasicMetadata(original_key_unquoted)
            metadata == IF env.USE_REKOGNITION THEN WithRekognition(basic, rek)
                        ELSE basic
            gets == IF env.USE_REKOGNITION
                    THEN <<get, [answer |-> rek]
                                @@ DetectLabelsRequest(original_bucket, original_key_unquoted)>>
                    ELSE <<get>>
        IN  Returns(("extracted_metadata" :> PyDict(metadata))
                    @@ ("metadata_extraction_status" :> PyStr("SUCCESS"))
                    @@ event, gets, <<>>)

-----------------------------------------------------------------------------
(* store-results-lambda *)

NoItem == <<"none">>

StoreReturns(out, item) ==
    [ok |-> TRUE, out |-> out, exc |-> NoError, item |-> item, stored |-> TRUE]

StoreRaises(exc, item) ==
    [ok |-> FALSE, out |-> NoState, exc |-> exc, item |-> item, stored |-> FALSE]

\* image_id
ImageId(event) == unquote_plus(event["s3_key"][2])

\* item_to_store
ItemToStore(event, timestamp_now) ==
    PyDict([ImageKey |-> PyStr(ImageId(event)),
            s3_bucket_original |-> Get(event, "s3_bucket"),
            s3_key_original |-> Get(event, "s3_key"),
            image_type |-> Get(event, "image_type"),
            validation_status |-> Get(event, "validation_status"),
            thumbnails |-> GetOr(event, "thumbnails", PyDict(<<>>)),
            thumbnail_generation_status |-> Get(event, "thumbnail_generation_status"),
            extracted_metadata |-> GetOr(event, "extracted_metadata", PyDict(<<>>)),
            metadata_extraction_status |-> Get(event, "metadata_extraction_status"),
            overall_processing_status |-> PyStr("COMPLETED"),
            created_at |-> PyInt(timestamp_now),
            updated_at |-> PyInt(timestamp_now)])

\* item_cleaned_for_dynamodb: the item through json.dumps and json.loads
CleanForDynamoDB(item) == JsonLoads(JsonDumps(item, FALSE))

\* a write that adds the item and keeps the old one (faulty variant of PutItem)
PutItem_Insert(tbl, item) == tbl \cup {item}

\* table.put_item(Item=item): the item replaces the one with its ImageKey
PutItem(tbl, item) ==
    {i \in tbl : i[2]["ImageKey"] # item[2]["ImageKey"]} \cup {item}

\* final_output
StoreOutput(event) ==
    ("dynamodb_storage_status" :> PyStr("SUCCESS"))
    @@ ("overall_processing_status" :> PyStr("COMPLETED"))
    @@ event

\* a handler that logs a failed put_item and goes on to report success
\* (faulty variant of StoreResults)
StoreResults_SwallowsError(event, timestamp_now, storeFails) ==
    IF env.DYNAMODB_TABLE_NAME = <<>> \/ "s3_key" \notin DOMAIN event
    THEN StoreRaises(Exception("EnvironmentError", "", <<>>), NoItem)
    ELSE
    LET item_json == JsonDumps(ItemToStore(event, timestamp_now), FALSE)
    IN  IF JsonRaises(item_json)
        THEN StoreRaises(Exception("TypeError", "not JSON serializable", <<>>), NoItem)
        ELSE
        LET item == JsonLoads(item_json)
        IN  [ok |-> TRUE, out |-> StoreOutput(event), exc |-> NoError, item |-> item,
             stored |-> ~ HasFloat(item) /\ ~ storeFails]

\* lambda_handler(event, context) of store-results-lambda.  boto3 refuses to
\* serialize a float (TypeError); storeFails is the store's own failure.
StoreResults(event, timestamp_now, storeFails) ==
    IF env.DYNAMODB_TABLE_NAME = <<>>
    THEN StoreRaises(Exception("EnvironmentError",
             "DYNAMODB_TABLE_NAME environment variable is not configured for the function.",
             <<>>), NoItem)
    ELSE IF "s3_key" \notin DOMAIN event
    THEN StoreRaises(Exception("KeyError", "'s3_key' not found in the input event.", <<>>),
                     NoItem)
    ELSE
    LET item_json == JsonDumps(ItemToStore(event, timestamp_now), FALSE)
    IN  IF JsonRaises(item_json)
        THEN StoreRaises(Exception("TypeError", "not JSON serializable", <<>>), NoItem)
        ELSE
        LET item == JsonLoads(item_json)
        IN  IF HasFloat(item)
            THEN StoreRaises(Exception("TypeError", "Float types are not supported. Use Decimal types instead.", <<>>),
                             item)
            ELSE IF storeFails
            THEN StoreRaises(Exception("ClientError", "An error occurred when calling the PutItem operation", <<>>),
                             item)
            ELSE StoreReturns(StoreOutput(event), item)

-----------------------------------------------------------------------------
(* status-check-lambda *)

NoResponse == [statusCode |-> 0, headers |-> <<>>, body |-> JsonLiteral("null")]

Response(statusCode, headers, body) ==
    [statusCode |-> statusCode, headers |-> headers, body |-> body]

PlainHeaders == ("Content-Type" :> "application/json")

CorsHeaders ==
    ("Content-Type" :> "application/json") @@ ("Access-Control-Allow-Origin" :> "*")

ErrorBody(message) == JsonDumps(PyDict([error |-> PyStr(message)]), FALSE)

\* table.get_item(Key={'ImageKey': id}): the items under that key
GetItem(tbl, id) == {i \in tbl : i[2]["ImageKey"] = PyStr(id)}

\* a handler that reads response_ddb['Item'] without asking whether it is
\* there: the KeyError of an absent item lands in the except block
\* (faulty variant of StatusCheck)
StatusCheck_ItemKeyError(event, storeFails) ==
    IF env.DYNAMODB_TABLE_NAME = <<>>
    THEN Response(500, PlainHeaders,
                  ErrorBody("Internal server error: DynamoDB table name not configured."))
    ELSE IF "pathParameters" \notin DOMAIN event
            \/ event["pathParameters"] = PyNone
            \/ "imageId" \notin DOMAIN event["pathParameters"][2]
    THEN Response(400, PlainHeaders, ErrorBody("imageId path parameter is missing."))
    ELSE
    LET found == GetItem(table, event["pathParameters"][2]["imageId"][2])
    IN  IF storeFails \/ found = {}
        THEN Response(500, CorsHeaders,
                 ErrorBody("An internal server error occurred while processing your request."))
        ELSE Response(200, CorsHeaders, JsonDumps(CHOOSE i \in found : TRUE, TRUE))

\* lambda_handler(event, context) of status-check-lambda.  event holds
\* pathParameters as a dict, as None, or not at all.
StatusCheck(event, storeFails) ==
    IF env.DYNAMODB_TABLE_NAME = <<>>
    THEN Response(500, PlainHeaders,
                  ErrorBody("Internal server error: DynamoDB table name not configured."))
    ELSE IF "pathParameters" \notin DOMAIN event
            \/ event["pathParameters"] = PyNone
            \/ "imageId" \notin DOMAIN event["pathParameters"][2]
    THEN Response(400, PlainHeaders, ErrorBody("imageId path parameter is missing."))
    ELSE
    LET image_id_to_query == event["pathParameters"][2]["imageId"][2]
        found == GetItem(table, image_id_to_query)
    IN  IF storeFails
        THEN Response(500, CorsHeaders,
                 ErrorBody("An internal server error occurred while processing your request."))
        ELSE IF found # {}
        THEN LET body == JsonDumps(CHOOSE i \in found : TRUE, TRUE)
             IN  IF JsonRaises(body)
                 THEN Response(500, CorsHeaders,
                          ErrorBody("An internal server error occurred while processing your request."))
                 ELSE Response(200, CorsHeaders, body)
        ELSE Response(404, CorsHeaders,
                 JsonDumps(PyDict([message |->
                     PyStr("Image details not found for the given imageId.")]), FALSE))

-----------------------------------------------------------------------------
(* Inputs *)

Chars_uploads == <<"u", "p", "l", "o", "a", "d", "s", "/">>
UploadsBucket == <<"b">>
ThumbnailsBucket == <<"t">>
TableName == <<"T">>

\* object keys as S3 notifications carry them (URL-encoded)
RawKeys ==
    { Chars_uploads \o <<"c", "a", "t">> \o Chars_jpg,
      Chars_uploads \o <<"a", "%", "2", "5", "2", "0", "b">> \o Chars_jpg,
      Chars_uploads \o <<"a", "%", "2", "B", "b">> \o Chars_png,
      Chars_uploads \o <<"a", "+", "b", ".", "P", "N", "G">>,
      Chars_uploads \o <<"c", "a", "t", ".", "g", "i", "f">> }

\* the event S3 sends through EventBridge
NestedTrigger(bucket, key) ==
    [bucket |-> PyDict([name |-> PyStr(bucket)]),
     object |-> PyDict([key |-> PyStr(key)])]

\* the event of a caller that passes the two names directly
FlatTrigger(bucket, key) == [s3_bucket |-> PyStr(bucket), s3_key |-> PyStr(key)]

\* events in which one of the two names cannot be found
BrokenTriggers(bucket, key) ==
    { [bucket |-> PyDict([name |-> PyStr(bucket)])],
      [bucket |-> PyStr(bucket), object |-> PyDict([key |-> PyStr(key)])],
      [bucket |-> PyDict([name |-> PyStr(bucket)]),
       object |-> PyDict([key |-> PyStr(<<>>)])] }

\* the raw key an event carries, whatever its shape (<<>> if none)
RawKeyOf(event) ==
    IF "s3_key" \in DOMAIN event THEN event["s3_key"][2]
    ELSE TriggerObjectKey(event)

DefaultSizes == << <<128, 128>>, <<256, 256>> >>

Environment(thumbBucket, tableName, rekognition, sizes) ==
    [THUMBNAILS_S3_BUCKET |-> thumbBucket, DYNAMODB_TABLE_NAME |-> tableName,
     USE_REKOGNITION |-> rekognition, THUMBNAIL_SIZES_STR |-> sizes]

Picture(format, mode, width, height) ==
    [decodable |-> TRUE, format |-> format, mode |-> mode,
     width |-> width, height |-> height, bytes |-> 12345]

Undecodable ==
    [decodable |-> FALSE, format |-> <<>>, mode |-> "", width |-> 0, height |-> 0,
     bytes |-> 12345]

\* what detect_labels can answer
RekognitionOutcomes ==
    { <<"error", "AccessDeniedException">>,
      <<"labels", <<>>>>,
      <<"labels", << [Name |-> "Cat", Confidence |-> PyFloat(955, 1)],
                     [Name |-> "Pet", Confidence |-> PyFloat(900, 1)] >> >> }

\* an item an earlier run stored under another key
OtherKey == Chars_uploads \o <<"d", "o", "g">> \o Chars_png
OtherItem ==
    CleanForDynamoDB(ItemToStore(
        [s3_bucket |-> PyStr(UploadsBucket), s3_key |-> PyStr(OtherKey),
         image_type |-> PyStr(Chars_png), validation_status |-> PyStr("SUCCESS")], 0))

-----------------------------------------------------------------------------
(* The pipeline *)

NoOutput == <<>>

\* s3 put_object: an object replaces the one under its key
RECURSIVE PutObjects(_, _)
PutObjects(store, puts) ==
    IF puts = <<>> THEN store
    ELSE PutObjects({o \in store : o.key # Head(puts).key} \cup {Head(puts)}, Tail(puts))

Logged(stage, gets) == [i \in DOMAIN gets |-> [stage |-> stage] @@ gets[i]]

\* the orchestrator invokes the validator on the trigger
Validate ==
    /\ pc = "validate"
    /\ LET r == ValidateImage(trigger)
       IN  /\ state' = IF r.ok THEN r.out ELSE state
           /\ raised' = r.exc
           /\ pc' = IF r.ok THEN "thumbnails" ELSE "failed"
    /\ UNCHANGED <<env, trigger, objects, image, reads, uploaded, putLog, table,
                   now, final, response, query>>

\* the orchestrator invokes generate-thumbnails on the validator's output
Thumbnails ==
    /\ pc = "thumbnails"
    /\ \E failAt \in 0..Len(THUMBNAIL_SIZES), failKind \in {"save", "put_object"} :
         LET r == GenerateThumbnails(state, failAt, failKind)
         IN  /\ state' = IF r.ok THEN r.out ELSE state
             /\ raised' = r.exc
             /\ pc' = IF r.ok THEN "metadata" ELSE "failed"
             /\ reads' = reads \o Logged("thumbnails", r.gets)
             /\ uploaded' = PutObjects(uploaded, r.puts)
    /\ UNCHANGED <<env, trigger, objects, image, putLog, table, now, final, response, query>>

\* the orchestrator invokes extract-metadata on the accumulated state
Metadata ==
    /\ pc = "metadata"
    /\ \E rek \in RekognitionOutcomes :
         LET r == ExtractMetadata(state, rek)
         IN  /\ state' = IF r.ok THEN r.out ELSE state
             /\ raised' = r.exc
             /\ pc' = IF r.ok THEN "store" ELSE "failed"
             /\ reads' = reads \o Logged("metadata", r.gets)
    /\ UNCHANGED <<env, trigger, objects, image, uploaded, putLog, table, now,
                   final, response, query>>

\* at most MaxPersists invocations of store-results hand an item to put_item
MaxPersists == 2

\* the orchestrator invokes store-results on the accumulated state, and may
\* invoke it again on the same state (a re-run)
Store ==
    /\ pc \in {"store", "done"}
    /\ Len(putLog) < MaxPersists
    /\ \E storeFails \in BOOLEAN :
         LET r == StoreResults(state, now, storeFails)
         IN  /\ final' = IF r.ok THEN r.out ELSE NoOutput
             /\ raised' = r.exc
             /\ pc' = IF r.ok THEN "done" ELSE "failed"
             /\ putLog' = IF r.item = NoItem THEN putLog ELSE Append(putLog, r.item)
             /\ table' = IF r.stored THEN PutItem(table, r.item) ELSE table
    /\ UNCHANGED <<env, trigger, objects, image, state, reads, uploaded, now, response, query>>

\* a request to status-check: the API Gateway event, whether the table
\* answers with an error, and the table as the lookup finds it
Query(event, storeFails, tbl) == [event |-> event, storeFails |-> storeFails, table |-> tbl]

NoQuery == Query(<<>>, FALSE, {})

\* the identifiers a client may ask about
StatusIds ==
    LET once == unquote_plus(RawKeyOf(trigger))
    IN  {once, unquote_plus(once), Basename(once), <<"/">> \o Basename(once)}

StatusEvent(id) == [pathParameters |-> PyDict([imageId |-> PyStr(id)])]

\* the requests a client may send: an identifier, pathParameters null, or
\* no pathParameters at all
StatusEvents ==
    {StatusEvent(id) : id \in StatusIds}
    \cup {[pathParameters |-> PyNone], [httpMethod |-> PyStr("GET")]}

\* API Gateway invokes status-check on one of `events` once the run has
\* ended (until store-results has run the table holds what it held at the
\* start, so a request made earlier is answered like one made after a
\* failed run)
StatusOn(events) ==
    /\ pc \in {"done", "failed"}
    /\ \E storeFails \in BOOLEAN, event \in events :
            /\ response' = StatusCheck(event, storeFails)
            /\ query' = Query(event, storeFails, table)
    /\ UNCHANGED <<env, trigger, objects, image, pc, state, raised, reads, uploaded,
                   putLog, table, now, final>>

\* a client asks for the status of an image, in any of the ways above
Status == StatusOn(StatusEvents)

\* a client asks for the image by the key it was uploaded under
StatusByKey == StatusOn({StatusEvent(unquote_plus(RawKeyOf(trigger)))})

\* time passes while the state waits for store-results or for a re-run (no
\* other stage reads the clock)
Tick ==
    /\ pc \in {"store", "done"}
    /\ now < MaxTime
    /\ now' = now + 1
    /\ UNCHANGED <<env, trigger, objects, image, pc, state, raised, reads, uploaded,
                   putLog, table, final, response, query>>

Environments ==
    { Environment(ThumbnailsBucket, TableName, TRUE, DefaultSizes),
      Environment(ThumbnailsBucket, TableName, FALSE, << <<128, 128>>, <<>>, <<256, 256>> >>),
      Environment(<<>>, TableName, FALSE, DefaultSizes),
      Environment(ThumbnailsBucket, <<>>, FALSE, DefaultSizes) }

Triggers ==
    {NestedTrigger(UploadsBucket, k) : k \in RawKeys}
    \cup {FlatTrigger(UploadsBucket, Chars_uploads \o <<"c", "a", "t">> \o Chars_jpg)}
    \cup BrokenTriggers(UploadsBucket, Chars_uploads \o <<"c", "a", "t">> \o Chars_jpg)

Pictures ==
    { Picture(Chars_JPEG, "RGB", 800, 600),
      Picture(Chars_PNG, "RGBA", 800, 600),
      Picture(Chars_GIF, "RGBA", 800, 600),
      Picture(Chars_GIF, "P", 800, 600),
      Picture(<<>>, "LA", 800, 600),
      Undecodable }

\* the uploads bucket holds the uploaded object under its decoded key, and
\* may hold another object under the key decoded once more
ObjectSets(rawKey) ==
    { {unquote_plus(rawKey)}, {unquote_plus(rawKey), unquote_plus(unquote_plus(rawKey))} }

Start(envs, triggers, pictures) ==
    /\ env \in envs
    /\ trigger \in triggers
    /\ objects \in ObjectSets(RawKeyOf(trigger))
    /\ image \in pictures
    /\ pc = "validate"
    /\ state = NoState
    /\ raised = NoError
    /\ reads = <<>>
    /\ uploaded = {}
    /\ putLog = <<>>
    /\ table = {OtherItem}
    /\ now = 1
    /\ final = NoOutput
    /\ response = NoResponse
    /\ query = NoQuery

Init == Start(Environments, Triggers, Pictures)

Next == Validate \/ Thumbnails \/ Metadata \/ Store \/ StatusByKey \/ Tick

Spec == Init /\ [][Next]_vars

-----------------------------------------------------------------------------
(* The validator alone, over many object keys and event shapes *)

KeyDirs == { <<>>, Chars_uploads, <<"a", ".", "b", "/">> }

KeyStems == { <<"c">>, <<>>, <<".">>, <<"c", ".", "d">>, <<"c", "+", "d">> }

KeyExtensions ==
    { Chars_jpg, <<".", "J", "P", "G">>, Chars_jpeg, <<".", "J", "p", "e", "G">>,
      Chars_png, <<".", "P", "N", "G">>, <<".", "g", "i", "f">>, <<>>,
      <<".", "j", "p", "g", ".", "g", "i", "f">>, <<"%", "2", "E", "j", "p", "g">>,
      <<".", "j", "p">>, <<"j", "p", "g">> }

ManyKeys == {d \o st \o e : d \in KeyDirs, st \in KeyStems, e \in KeyExtensions}

FewKeys ==
    { Chars_uploads \o <<"c", "a", "t">> \o Chars_jpg,
      <<"c", ".", "P", "N", "G">>, <<"c", ".", "g", "i", "f">> }

ManyTriggers ==
    {NestedTrigger(UploadsBucket, k) : k \in ManyKeys \ {<<>>}}
    \cup {FlatTrigger(UploadsBucket, k) : k \in FewKeys}
    \cup UNION {BrokenTriggers(UploadsBucket, k) : k \in FewKeys}

InitValidate ==
    Start({Environment(ThumbnailsBucket, TableName, FALSE, DefaultSizes)},
          ManyTriggers, {Picture(Chars_JPEG, "RGB", 800, 600)})

NextValidate == Validate

SpecValidate == InitValidate /\ [][NextValidate]_vars

-----------------------------------------------------------------------------
(* generate-thumbnails alone, over source sizes and configured boxes *)

SmallSizes == << <<2, 2>>, <<4, 3>>, <<1, 5>> >>

CatKey == Chars_uploads \o <<"c", "a", "t">> \o Chars_jpg

SourceSizes == ((1..MaxSrcDim) \X (1..MaxSrcDim)) \cup {<<800, 600>>}

InitResize ==
    /\ env \in { Environment(ThumbnailsBucket, TableName, FALSE, DefaultSizes),
                 Environment(ThumbnailsBucket, TableName, FALSE, SmallSizes) }
    /\ trigger = NestedTrigger(UploadsBucket, CatKey)
    /\ objects = {CatKey}
    /\ image \in {Picture(Chars_JPEG, "RGB", sz[1], sz[2]) : sz \in SourceSizes}
    /\ pc = "thumbnails"
    /\ state = ValidateImage(trigger).out
    /\ raised = NoError
    /\ reads = <<>>
    /\ uploaded = {}
    /\ putLog = <<>>
    /\ table = {OtherItem}
    /\ now = 1
    /\ final = NoOutput
    /\ response = NoResponse
    /\ query = NoQuery

NextResize == Thumbnails

SpecResize == InitResize /\ [][NextResize]_vars

-----------------------------------------------------------------------------
(* store-results and status-check, over accumulated states whose extracted *)
(* metadata holds any kind of leaf at any depth                            *)

Leaves ==
    << PyInt(0), PyInt(12345), PyInt(-7), PyFloat(955, 1), PyFloat(900, 1),
       PyFloat(-5, 1), PyFloat(125, 3), PyFloat(7, 2),
       PyNonFinite("NaN"), PyNonFinite("Infinity"), PyNonFinite("-Infinity"),
       PyStr("RGB"), PyStr("NaN"), PyBool(TRUE), PyBool(FALSE), PyNone >>

\* the leaf inside `depth` containers, lists and dicts in turn
RECURSIVE Nest(_, _)
Nest(leaf, depth) ==
    IF depth = 0 THEN leaf
    ELSE IF depth % 2 = 1
    THEN PyList(<<PyDict([Name |-> PyStr("Cat"), Confidence |-> PyFloat(955, 1)]),
                  Nest(leaf, depth - 1)>>)
    ELSE PyDict([Name |-> PyStr("Cat"), Confidence |-> Nest(leaf, depth - 1)])

MetadataTree(leaf, depth) ==
    PyDict([filename |-> PyStr(Basename(CatKey)),
            filesize_bytes |-> PyInt(12345),
            value |-> Nest(leaf, depth)])

AccumulatedState(metadata) ==
    ("extracted_metadata" :> metadata)
    @@ ("metadata_extraction_status" :> PyStr("SUCCESS"))
    @@ ("thumbnails" :> PyDict(<<>>))
    @@ ("thumbnail_generation_status" :> PyStr("SUCCESS"))
    @@ ValidateImage(NestedTrigger(UploadsBucket, CatKey)).out

InitNum ==
    /\ env = Environment(ThumbnailsBucket, TableName, FALSE, DefaultSizes)
    /\ trigger = NestedTrigger(UploadsBucket, CatKey)
    /\ objects = {CatKey}
    /\ image = Picture(Chars_JPEG, "RGB", 800, 600)
    /\ pc = "store"
    /\ \E i \in DOMAIN Leaves, depth \in 0..MaxDepth :
          state = AccumulatedState(MetadataTree(Leaves[i], depth))
    /\ raised = NoError
    /\ reads = <<>>
    /\ uploaded = {}
    /\ putLog = <<>>
    /\ table = {OtherItem}
    /\ now = 1
    /\ final = NoOutput
    /\ response = NoResponse
    /\ query = NoQuery

NextNum == Store \/ StatusByKey \/ Tick

SpecNum == InitNum /\ [][NextNum]_vars

-----------------------------------------------------------------------------
(* extract-metadata alone: the object there or gone, decodable or not,     *)
(* label detection on or off, answering or failing                         *)

MetaKeys ==
    { CatKey, Chars_uploads \o <<"a", "+", "b">> \o Chars_png,
      <<"c", ".", "P", "N", "G">> }

InitMeta ==
    /\ env \in { Environment(ThumbnailsBucket, TableName, TRUE, DefaultSizes),
                 Environment(ThumbnailsBucket, TableName, FALSE, DefaultSizes) }
    /\ trigger \in {NestedTrigger(UploadsBucket, k) : k \in MetaKeys}
    /\ objects \in {{}} \cup ObjectSets(RawKeyOf(trigger))
    /\ image \in Pictures
    /\ pc = "metadata"
    /\ state = ThumbnailsOutput(ValidateImage(trigger).out, <<>>)
    /\ raised = NoError
    /\ reads = <<>>
    /\ uploaded = {}
    /\ putLog = <<>>
    /\ table = {OtherItem}
    /\ now = 1
    /\ final = NoOutput
    /\ response = NoResponse
    /\ query = NoQuery

NextMeta == Metadata

SpecMeta == InitMeta /\ [][NextMeta]_vars

-----------------------------------------------------------------------------
(* store-results and status-check alone: a table that is or is not         *)
(* configured, a record that is or is not stored, every kind of request    *)

InitStatus ==
    /\ env \in { Environment(ThumbnailsBucket, TableName, FALSE, DefaultSizes),
                 Environment(ThumbnailsBucket, <<>>, FALSE, DefaultSizes) }
    /\ trigger = NestedTrigger(UploadsBucket, CatKey)
    /\ objects = {CatKey}
    /\ image = Picture(Chars_JPEG, "RGB", 800, 600)
    /\ pc = "store"
    /\ state \in { AccumulatedState(MetadataTree(PyFloat(955, 1), 1)),
                   AccumulatedState(MetadataTree(PyStr("RGB"), 0)) }
    /\ raised = NoError
    /\ reads = <<>>
    /\ uploaded = {}
    /\ putLog = <<>>
    /\ table \in {{}, {OtherItem}}
    /\ now = 1
    /\ final = NoOutput
    /\ response = NoResponse
    /\ query = NoQuery

NextStatus == Store \/ Status \/ Tick

SpecStatus == InitStatus /\ [][NextStatus]_vars

-----------------------------------------------------------------------------
(* Two runs of the pipeline at once, for two uploads or twice for one.     *)
(* trigger, pc, state, raised and final hold one value per run; the        *)
(* buckets, the table, the clock and the request log are shared.           *)

Runs == {1, 2}

PairKeys ==
    { CatKey,
      <<"a", "/", "c", "a", "t">> \o Chars_jpg,
      Chars_uploads \o <<"c", "a", "t">> \o Chars_jpeg }

\* the requests of run r, as logged
LoggedBy(r, requests) == [i \in DOMAIN requests |-> [run |-> r] @@ requests[i]]

\* the put_object requests among `puts`
PutRequests(puts) ==
    [i \in DOMAIN puts |-> [op |-> "put_object", bucket |-> puts[i].bucket,
                            key |-> puts[i].key]]

\* the put_item request for `item`
PutItemRequest(item) ==
    [op |-> "put_item", bucket |-> env.DYNAMODB_TABLE_NAME, key |-> item[2]["ImageKey"][2]]

InitPair ==
    /\ env = Environment(ThumbnailsBucket, TableName, FALSE, DefaultSizes)
    /\ trigger \in {<<NestedTrigger(UploadsBucket, k1), NestedTrigger(UploadsBucket, k2)>> :
                        k1 \in PairKeys, k2 \in PairKeys}
    /\ objects = PairKeys
    /\ image = Picture(Chars_JPEG, "RGB", 800, 600)
    /\ pc = <<"validate", "validate">>
    /\ state = <<NoState, NoState>>
    /\ raised = <<NoError, NoError>>
    /\ reads = <<>>
    /\ uploaded = {}
    /\ putLog = <<>>
    /\ table = {OtherItem}
    /\ now = 1
    /\ final = <<NoOutput, NoOutput>>
    /\ response = NoResponse
    /\ query = NoQuery

\* the orchestrator of one run invokes the validator
PairValidate ==
    \E r \in Runs :
       /\ pc[r] = "validate"
       /\ LET v == ValidateImage(trigger[r])
          IN  /\ state' = [state EXCEPT ![r] = IF v.ok THEN v.out ELSE @]
              /\ raised' = [raised EXCEPT ![r] = v.exc]
              /\ pc' = [pc EXCEPT ![r] = IF v.ok THEN "thumbnails" ELSE "failed"]
       /\ UNCHANGED <<env, trigger, objects, image, reads, uploaded, putLog, table,
                      now, final, response, query>>

\* the orchestrator of one run invokes generate-thumbnails
PairThumbnails ==
    \E r \in Runs :
       /\ pc[r] = "thumbnails"
       /\ \E failAt \in 0..Len(THUMBNAIL_SIZES), failKind \in {"save", "put_object"} :
            LET g == GenerateThumbnails(state[r], failAt, failKind)
            IN  /\ state' = [state EXCEPT ![r] = IF g.ok THEN g.out ELSE @]
                /\ raised' = [raised EXCEPT ![r] = g.exc]
                /\ pc' = [pc EXCEPT ![r] = IF g.ok THEN "metadata" ELSE "failed"]
                /\ reads' = reads \o LoggedBy(r, g.gets) \o LoggedBy(r, PutRequests(g.puts))
                /\ uploaded' = PutObjects(uploaded, g.puts)
       /\ UNCHANGED <<env, trigger, objects, image, putLog, table, now, final,
                      response, query>>

\* the orchestrator of one run invokes extract-metadata
PairMetadata ==
    \E r \in Runs :
       /\ pc[r] = "metadata"
       /\ \E rek \in RekognitionOutcomes :
            LET m == ExtractMetadata(state[r], rek)
            IN  /\ state' = [state EXCEPT ![r] = IF m.ok THEN m.out ELSE @]
                /\ raised' = [raised EXCEPT ![r] = m.exc]
                /\ pc' = [pc EXCEPT ![r] = IF m.ok THEN "store" ELSE "failed"]
                /\ reads' = reads \o LoggedBy(r, m.gets)
       /\ UNCHANGED <<env, trigger, objects, image, uploaded, putLog, table, now,
                      final, response, query>>

\* the orchestrator of one run invokes store-results
PairStore ==
    \E r \in Runs :
       /\ pc[r] = "store"
       /\ \E storeFails \in BOOLEAN :
            LET w == StoreResults(state[r], now, storeFails)
            IN  /\ final' = [final EXCEPT ![r] = IF w.ok THEN w.out ELSE NoOutput]
                /\ raised' = [raised EXCEPT ![r] = w.exc]
                /\ pc' = [pc EXCEPT ![r] = IF w.ok THEN "done" ELSE "failed"]
                /\ putLog' = IF w.item = NoItem THEN putLog ELSE Append(putLog, w.item)
                /\ table' = IF w.stored THEN PutItem(table, w.item) ELSE table
                /\ reads' = IF w.stored
                            THEN reads \o LoggedBy(r, <<PutItemRequest(w.item)>>)
                            ELSE reads
       /\ UNCHANGED <<env, trigger, objects, image, state, uploaded, now, response, query>>

\* time passes while a run waits for store-results
PairTick ==
    /\ \E r \in Runs : pc[r] = "store"
    /\ now < MaxTime
    /\ now' = now + 1
    /\ UNCHANGED <<env, trigger, objects, image, pc, state, raised, reads, uploaded,
                   putLog, table, final, response, query>>

NextPair == PairValidate \/ PairThumbnails \/ PairMetadata \/ PairStore \/ PairTick

SpecPair == InitPair /\ [][NextPair]_vars

-----------------------------------------------------------------------------
(* Claims *)

\* the object key of the trigger, percent-decoded once
DecodedOnce == unquote_plus(RawKeyOf(trigger))

\* C1: after a run validator -> thumbnails -> metadata -> store, every key a
\* stage asks the object store for, and the ImageKey of every item handed to
\* the table, is the raw trigger key percent-decoded exactly once.
C1_KeyDecodedOnce ==
    /\ \A i \in DOMAIN reads : reads[i].key = DecodedOnce
    /\ \A i \in DOMAIN putLog : putLog[i][2]["ImageKey"] = PyStr(DecodedOnce)

\* C1, the stored key alone: the ImageKey written is the key decoded once
C1_ImageKeyDecodedOnce ==
    \A item \in table \ {OtherItem} : item[2]["ImageKey"] = PyStr(DecodedOnce)

\* whether s ends with suffix
EndsWith(s, suffix) ==
    /\ Len(s) >= Len(suffix)
    /\ SubSeq(s, Len(s) - Len(suffix) + 1, Len(s)) = suffix

\* whether key, lower-cased, ends with suffix as the extension of its last
\* path segment: a character other than "." and "/" precedes the suffix
\* within the segment (leading dots make a hidden file, not an extension)
HasExtension(key, suffix) ==
    LET low == Lower(key)
        stemEnd == Len(key) - Len(suffix)
    IN  /\ EndsWith(low, suffix)
        /\ \E i \in 1..stemEnd :
              /\ low[i] \notin {".", "/"}
              /\ \A j \in i..stemEnd : low[j] # "/"

\* the supported extension the key carries, <<>> if none
SupportedExtensionOf(key) ==
    IF HasExtension(key, <<".", "j", "p", "g">>) THEN <<".", "j", "p", "g">>
    ELSE IF HasExtension(key, <<".", "j", "p", "e", "g">>) THEN <<".", "j", "p", "e", "g">>
    ELSE IF HasExtension(key, <<".", "p", "n", "g">>) THEN <<".", "p", "n", "g">>
    ELSE <<>>

\* both names can be read from the trigger in the nested shape
WellFormedTrigger ==
    TriggerBucketName(trigger) # <<>> /\ TriggerObjectKey(trigger) # <<>>

\* C8: on a well-formed trigger the validator accepts iff the extension of
\* the object key, compared case-insensitively, is .jpg, .jpeg or .png; on
\* acceptance it emits validation_status SUCCESS and the lower-cased
\* extension as image_type; otherwise it raises the unsupported-type error
\* and emits no state.
C8_ExtensionAllowlist ==
    (pc # "validate" /\ WellFormedTrigger) =>
        LET ext == SupportedExtensionOf(DecodedOnce)
        IN  IF ext # <<>>
            THEN /\ "validation_status" \in DOMAIN state
                 /\ state["validation_status"] = PyStr("SUCCESS")
                 /\ state["image_type"] = PyStr(ext)
            ELSE /\ DOMAIN state = {}
                 /\ pc = "failed"
                 /\ raised.type = "ValueError"
                 /\ raised.msg = "Unsupported image type"

\* C8 witness: a key ending in upper-case .PNG was accepted as ".png"
C8_Witness_Accepted ==
    /\ pc = "thumbnails"
    /\ EndsWith(DecodedOnce, <<".", "P", "N", "G">>)
    /\ state["image_type"] = PyStr(Chars_png)

IsFlatTrigger == {"s3_bucket", "s3_key"} \subseteq DOMAIN trigger

\* C9: a flat {s3_bucket, s3_key} trigger is accepted like the nested one
\* that carries the same names: with a supported key the validator emits
\* the two names, the image type and validation_status SUCCESS.
C9_FlatTriggerAccepted ==
    (pc # "validate" /\ IsFlatTrigger
        /\ SupportedExtensionOf(unquote_plus(trigger["s3_key"][2])) # <<>>) =>
        /\ DOMAIN state # {}
        /\ state = ValidateImage(NestedTrigger(trigger["s3_bucket"][2],
                                               trigger["s3_key"][2])).out

\* the containers and leaves of `dst` mirror those of `src`, and wherever
\* `src` holds a non-finite float `dst` holds the string that names it
RECURSIVE SentinelsIn(_, _)
SentinelsIn(src, dst) ==
    CASE src[1] = "nonfinite" -> dst = PyStr(src[2])
      [] src[1] = "list" ->
            /\ dst[1] = "list" /\ DOMAIN dst[2] = DOMAIN src[2]
            /\ \A i \in DOMAIN src[2] : SentinelsIn(src[2][i], dst[2][i])
      [] src[1] = "dict" ->
            /\ dst[1] = "dict" /\ DOMAIN dst[2] = DOMAIN src[2]
            /\ \A k \in DOMAIN src[2] : SentinelsIn(src[2][k], dst[2][k])
      [] OTHER -> TRUE

RECURSIVE HasNonFinite(_)
HasNonFinite(o) ==
    CASE o[1] = "nonfinite" -> TRUE
      [] o[1] = "list" -> \E i \in DOMAIN o[2] : HasNonFinite(o[2][i])
      [] o[1] = "dict" -> \E k \in DOMAIN o[2] : HasNonFinite(o[2][k])
      [] OTHER -> FALSE

\* C2: when the extracted metadata holds NaN, Infinity or -Infinity at any
\* depth, store-results does not fail on it: the item handed to put_item
\* holds the strings "NaN", "Infinity", "-Infinity" in their places and no
\* native float.
C2_NonFiniteAsSentinels ==
    /\ \A i \in DOMAIN putLog :
          /\ ~ HasFloat(putLog[i])
          /\ SentinelsIn(state["extracted_metadata"],
                         putLog[i][2]["extracted_metadata"])
    /\ (pc = "failed" /\ HasNonFinite(state["extracted_metadata"]))
          => raised.type = "ClientError"

\* src * 10^srcScale = dst * 10^dstScale, for scales >= 0
SameValue(src, srcScale, dst, dstScale) ==
    src * Pow10(dstScale) = dst * Pow10(srcScale)

\* `dst` is `src` with every int and finite float turned into a Decimal of
\* the same value and every other leaf left as it is (a non-finite float
\* is left to C2)
RECURSIVE Bridged(_, _)
Bridged(src, dst) ==
    CASE src[1] = "int" ->
            /\ dst[1] = "decimal"
            /\ IF dst[3] >= 0 THEN dst[2] * Pow10(dst[3]) = src[2]
               ELSE SameValue(dst[2], 0, src[2], -dst[3])
      [] src[1] = "float" ->
            /\ dst[1] = "decimal"
            /\ dst[3] <= 0
            /\ SameValue(dst[2], src[3], src[2], -dst[3])
      [] src[1] = "nonfinite" -> TRUE
      [] src[1] = "list" ->
            /\ dst[1] = "list" /\ DOMAIN dst[2] = DOMAIN src[2]
            /\ \A i \in DOMAIN src[2] : Bridged(src[2][i], dst[2][i])
      [] src[1] = "dict" ->
            /\ dst[1] = "dict" /\ DOMAIN dst[2] = DOMAIN src[2]
            /\ \A k \in DOMAIN src[2] : Bridged(src[2][k], dst[2][k])
      [] OTHER -> dst = src

\* C3: in every item handed to put_item, each int and finite float leaf, at
\* any depth (created_at and updated_at, values inside maps, elements of
\* lists), is a Decimal of the same value, and each string, boolean and
\* null leaf is as it was in the accumulated state.
C3_NumericLeavesExact ==
    \A i \in DOMAIN putLog :
        LET item == putLog[i][2]
        IN  /\ \E t \in 1..now : /\ Bridged(PyInt(t), item["created_at"])
                                 /\ Bridged(PyInt(t), item["updated_at"])
            /\ Bridged(state["extracted_metadata"], item["extracted_metadata"])
            /\ Bridged(state["thumbnails"], item["thumbnails"])
            /\ \A f \in {"s3_bucket", "image_type", "validation_status"} :
                  Bridged(state[f],
                          item[IF f = "s3_bucket" THEN "s3_bucket_original" ELSE f])

\* C3 witness: an item was handed over whose metadata held the float 0.125
\* two containers deep, beside the int 12345
C3_Witness_NestedFloat ==
    /\ Len(putLog) > 0
    /\ state["extracted_metadata"] = MetadataTree(PyFloat(125, 3), 2)
    /\ putLog[1][2]["extracted_metadata"][2]["filesize_bytes"] = Decimal(12345, 0)

\* the boxes the configuration names: the pairs that parse
ConfiguredBoxes ==
    {env.THUMBNAIL_SIZES_STR[i] : i \in {j \in DOMAIN env.THUMBNAIL_SIZES_STR :
                                            Len(env.THUMBNAIL_SIZES_STR[j]) = 2}}

\* C4: a state carries thumbnail_generation_status only as SUCCESS and only
\* when every configured box was resized, encoded and uploaded: thumbnails
\* then has exactly one entry per box, under "{width}x{height}", naming an
\* object that was put in the thumbnails bucket for that box.
C4_SuccessMeansEveryBox ==
    "thumbnail_generation_status" \in DOMAIN state =>
        /\ state["thumbnail_generation_status"] = PyStr("SUCCESS")
        /\ DOMAIN state["thumbnails"][2]
              = {Str(box[1]) \o <<"x">> \o Str(box[2]) : box \in ConfiguredBoxes}
        /\ \A box \in ConfiguredBoxes :
              \E o \in uploaded :
                 /\ o.box = box
                 /\ o.width <= box[1] /\ o.height <= box[2]
                 /\ state["thumbnails"][2][Str(box[1]) \o <<"x">> \o Str(box[2])]
                       = PyStr(Chars_s3 \o o.bucket \o <<"/">> \o o.key)

\* C4 witness: the stage succeeded for two boxes, one listed after a pair
\* that does not parse
C4_Witness_TwoBoxes ==
    /\ "thumbnail_generation_status" \in DOMAIN state
    /\ Cardinality(DOMAIN state["thumbnails"][2]) = 2
    /\ Len(env.THUMBNAIL_SIZES_STR) = 3

\* the thumbnails stage failed at a box after uploading at least one other
FailedAfterSomeBox ==
    /\ pc = "failed"
    /\ "validation_status" \in DOMAIN state
    /\ "thumbnail_generation_status" \notin DOMAIN state
    /\ raised.type \in {"OSError", "ClientError"}
    /\ uploaded # {}

\* C5: when the k-th box fails after boxes 1..k-1 succeeded, the stage
\* fails with an error that names the failing box, and the entries of the
\* boxes that succeeded are left in thumbnails for the orchestrator.
C5_PartialResultKept ==
    FailedAfterSomeBox =>
        /\ \E box \in ConfiguredBoxes : InSeq(box, raised.args)
        /\ "thumbnails" \in DOMAIN state
        /\ \A o \in uploaded :
              Str(o.box[1]) \o <<"x">> \o Str(o.box[2]) \in DOMAIN state["thumbnails"][2]

\* the text after the last "." of a key
AfterLastDot(key) == SubSeq(key, RFind(key, ".") + 1, Len(key))

\* C7: every object put in the thumbnails bucket is a JPEG or a PNG: the
\* image's own format when that is JPEG or PNG, JPEG for any other or
\* unknown format; its key extension and content type are those of that
\* format; and a JPEG written from an image with an alpha channel has been
\* flattened (RGBA to RGB).
C7_WebSafeFormats ==
    \A o \in uploaded :
        /\ o.format \in {<<"J", "P", "E", "G">>, <<"P", "N", "G">>}
        /\ image.format \in {<<"J", "P", "E", "G">>, <<"P", "N", "G">>}
              => o.format = image.format
        /\ image.format \notin {<<"J", "P", "E", "G">>, <<"P", "N", "G">>}
              => o.format = <<"J", "P", "E", "G">>
        /\ o.format = <<"J", "P", "E", "G">>
              => /\ AfterLastDot(o.key) = <<"j", "p", "e", "g">>
                 /\ o.contentType = "image/jpeg"
                 /\ o.mode \notin {"RGBA", "LA", "PA", "RGBa", "La"}
                 /\ image.mode = "RGBA" => o.mode = "RGB"
        /\ o.format = <<"P", "N", "G">>
              => /\ AfterLastDot(o.key) = <<"p", "n", "g">>
                 /\ o.contentType = "image/png"
                 /\ o.mode = image.mode

\* C7 witness: a GIF with an alpha channel was written as a flattened JPEG
C7_Witness_FlattenedFallback ==
    \E o \in uploaded :
        /\ image.format = Chars_GIF /\ image.mode = "RGBA"
        /\ o.format = Chars_JPEG /\ o.mode = "RGB"

\* the thumbnail o of a srcW x srcH image is that image scaled by num/den,
\* to within one pixel in each dimension
ScaledBy(o, srcW, srcH, num, den) ==
    /\ Abs(o.width * den - srcW * num) <= den
    /\ Abs(o.height * den - srcH * num) <= den

\* C6, with the factor uncapped: every thumbnail fits its box and is the
\* source scaled by the one factor min(W/srcW, H/srcH), to within a pixel in
\* each dimension.
C6_ScaledByBoxRatio ==
    \A o \in uploaded :
        LET W == o.box[1]
            H == o.box[2]
        IN  /\ o.width <= W /\ o.height <= H
            /\ IF W * image.height <= H * image.width
               THEN ScaledBy(o, image.width, image.height, W, image.width)
               ELSE ScaledBy(o, image.width, image.height, H, image.height)

\* C6, with the factor capped at 1: every thumbnail fits its box and is the
\* source scaled by the one factor min(1, W/srcW, H/srcH), to within a pixel
\* in each dimension: an image that already fits its box is not enlarged.
C6_FitsWithinNeverEnlarged ==
    \A o \in uploaded :
        LET W == o.box[1]
            H == o.box[2]
        IN  /\ o.width <= W /\ o.height <= H
            /\ o.width >= 1 /\ o.height >= 1
            /\ IF W >= image.width /\ H >= image.height
               THEN o.width = image.width /\ o.height = image.height
               ELSE IF W * image.height <= H * image.width
               THEN ScaledBy(o, image.width, image.height, W, image.width)
               ELSE ScaledBy(o, image.width, image.height, H, image.height)
            /\ (image.width = 800 /\ image.height = 600 /\ o.box = <<128, 128>>)
                  => (o.width = 128 /\ o.height = 96)

\* C6 witness: an image larger than its box was shrunk to a size whose ratio
\* is not exactly the source's (the height was rounded)
C6_Witness_ShrunkAndRounded ==
    \E o \in uploaded :
        /\ o.width < image.width
        /\ o.width = o.box[1]
        /\ o.height * image.width # image.height * o.width

\* C10: persisting the same state a second time, at a time t2 >= t1, leaves
\* exactly one item under its ImageKey: the key is the one of the first
\* write, updated_at is t2, every field but the two timestamps is as the
\* first write left it, and the items under other keys are untouched.
C10_SecondPersistOverwrites ==
    [][ (pc = "done" /\ pc' = "done" /\ Len(putLog') = Len(putLog) + 1) =>
          LET old == putLog[Len(putLog)]
              new == putLog'[Len(putLog')]
              id == old[2]["ImageKey"]
          IN  /\ old \in table
              /\ new \in table'
              /\ new[2]["ImageKey"] = id
              /\ Cardinality({i \in table' : i[2]["ImageKey"] = id}) = 1
              /\ new[2]["updated_at"] = Decimal(now, 0)
              /\ \A f \in DOMAIN new[2] \ {"created_at", "updated_at"} :
                    new[2][f] = old[2][f]
              /\ {i \in table' : i[2]["ImageKey"] # id}
                    = {i \in table : i[2]["ImageKey"] # id}
              /\ OtherItem \in table'
      ]_vars

\* C10 witness: the same state was persisted at two different times
C10_Witness_PersistedTwice ==
    /\ pc = "done"
    /\ Len(putLog) = 2
    /\ putLog[1][2]["updated_at"] # putLog[2][2]["updated_at"]
    /\ Cardinality(table) = 2

-----------------------------------------------------------------------------
(* The status read path *)

\* status-check has answered a request
Answered == response # NoResponse

\* the table name is configured
Configured == env.DYNAMODB_TABLE_NAME # <<>>

\* the request carries pathParameters.imageId
HasImageId ==
    /\ "pathParameters" \in DOMAIN query.event
    /\ query.event["pathParameters"] # PyNone
    /\ "imageId" \in DOMAIN query.event["pathParameters"][2]

\* the identifier the client sent
QueryId == query.event["pathParameters"][2]["imageId"][2]

\* the items the table held under ImageKey `key` when the request came
StoredUnder(key) == {i \in query.table : i[2]["ImageKey"] = PyStr(key)}

\* the value a JSON number token spells, times 10^Len(fraction digits)
TokenMantissa(j) == (IF j[2] THEN -1 ELSE 1) * DigitsVal(j[3] \o j[4])

\* the JSON text j shows the stored value v: strings, booleans and nulls as
\* they are, a Decimal as a number of the same value
RECURSIVE Rendered(_, _)
Rendered(v, j) ==
    CASE v[1] = "decimal" ->
            /\ j[1] = "number"
            /\ IF v[3] >= 0
               THEN SameValue(v[2] * Pow10(v[3]), 0, TokenMantissa(j), Len(j[4]))
               ELSE SameValue(v[2], -v[3], TokenMantissa(j), Len(j[4]))
      [] v[1] = "str" -> j = JsonString(v[2])
      [] v[1] = "null" -> j = JsonLiteral("null")
      [] v[1] = "bool" -> j = JsonLiteral(IF v[2] THEN "true" ELSE "false")
      [] v[1] = "list" ->
            /\ j[1] = "array" /\ DOMAIN j[2] = DOMAIN v[2]
            /\ \A i \in DOMAIN v[2] : Rendered(v[2][i], j[2][i])
      [] v[1] = "dict" ->
            /\ j[1] = "object" /\ DOMAIN j[2] = DOMAIN v[2]
            /\ \A k \in DOMAIN v[2] : Rendered(v[2][k], j[2][k])
      [] OTHER -> FALSE

\* the identifier with one leading separator stripped
StripSeparator(id) == IF id # <<>> /\ id[1] = "/" THEN Tail(id) ELSE id

\* C11: when the table holds a record under the ingestion prefix followed by
\* a name, a request whose identifier is that name (with or without one
\* leading "/") is answered 200 with that record: strings, booleans and
\* nulls as persisted, numbers equal in value.
C11_PrefixOmittedResolves ==
    (Answered /\ Configured /\ HasImageId /\ ~ query.storeFails) =>
        \A item \in StoredUnder(Chars_uploads \o StripSeparator(QueryId)) :
            /\ response.statusCode = 200
            /\ Rendered(item, response.body)

\* C17: every response status-check returns carries the header
\* Access-Control-Allow-Origin: *.
C17_EveryResponseCrossOrigin ==
    Answered =>
        /\ "Access-Control-Allow-Origin" \in DOMAIN response.headers
        /\ response.headers["Access-Control-Allow-Origin"] = "*"

\* the one key the request asks for was in the table
Present == HasImageId /\ StoredUnder(QueryId) # {}

\* the lookup was made and the table answered it
LookedUp == Configured /\ HasImageId /\ ~ query.storeFails

\* the body is the JSON object {field: text}
SaysOnly(body, field, text) ==
    /\ body[1] = "object"
    /\ DOMAIN body[2] = {field}
    /\ body[2][field] = JsonString(text)

GenericErrorText == "An internal server error occurred while processing your request."

\* C16, every status decided by the lookup alone: 200 with the record iff
\* the key is present, 404 with a not-found body iff the lookup was answered
\* and the key is absent, 400 iff the identifier is missing, 500 only on a
\* store or configuration error, and one body for every 500.
C16_LookupDecidesStatus ==
    Answered =>
        /\ response.statusCode \in {200, 400, 404, 500}
        /\ response.statusCode = 200 <=> (LookedUp /\ Present)
        /\ response.statusCode = 200 =>
              \E item \in StoredUnder(QueryId) : Rendered(item, response.body)
        /\ response.statusCode = 404 <=> (LookedUp /\ ~ Present)
        /\ response.statusCode = 404 =>
              SaysOnly(response.body, "message",
                       "Image details not found for the given imageId.")
        /\ response.statusCode = 400 <=> ~ HasImageId
        /\ response.statusCode = 500 => (~ Configured \/ query.storeFails)
        /\ response.statusCode = 500 =>
              SaysOnly(response.body, "error", GenericErrorText)

\* what the answer must be, the checks taken in the handler's order
StatusInOrder ==
    Answered =>
        IF ~ Configured
        THEN /\ response.statusCode = 500
             /\ SaysOnly(response.body, "error",
                    "Internal server error: DynamoDB table name not configured.")
        ELSE IF ~ HasImageId
        THEN /\ response.statusCode = 400
             /\ SaysOnly(response.body, "error", "imageId path parameter is missing.")
        ELSE IF query.storeFails
        THEN /\ response.statusCode = 500
             /\ SaysOnly(response.body, "error", GenericErrorText)
        ELSE IF Present
        THEN /\ response.statusCode = 200
             /\ Cardinality(StoredUnder(QueryId)) = 1
             /\ \A item \in StoredUnder(QueryId) : Rendered(item, response.body)
        ELSE /\ response.statusCode = 404
             /\ SaysOnly(response.body, "message",
                         "Image details not found for the given imageId.")

\* C16, the checks in order: without a configured table name the answer is
\* 500 with a fixed configuration message, whatever the request; otherwise
\* 400 iff the identifier is missing; otherwise 500 with one fixed body when
\* the store fails; otherwise 200 with the record iff the key is present and
\* 404 with the not-found body iff it is absent.  Answering a request writes
\* nothing to the table or the buckets.
C16_StatusByPrecedence ==
    /\ []StatusInOrder
    /\ [][ (query' # query \/ response' # response) =>
              (table' = table /\ putLog' = putLog /\ uploaded' = uploaded) ]_vars

\* C16 witness: a lookup the table answered found no item under the key,
\* while holding others, and the answer was 404
C16_Witness_AbsentIs404 ==
    /\ Answered /\ LookedUp /\ ~ Present
    /\ query.table # {}
    /\ response.statusCode = 404

-----------------------------------------------------------------------------
(* Completion *)

Completed == PyStr("COMPLETED")

\* the step is an invocation of store-results
StoreStep ==
    /\ pc \in {"store", "done"}
    /\ (pc' # pc \/ putLog' # putLog \/ final' # final \/ raised' # raised)

\* what holds whenever a state reports completion, and whenever none does
CompletedOnlyWhenStored ==
    /\ "overall_processing_status" \notin DOMAIN state
    /\ final # NoOutput =>
          /\ pc = "done"
          /\ final["overall_processing_status"] = Completed
          /\ putLog # <<>>
          /\ putLog[Len(putLog)] \in table
          /\ putLog[Len(putLog)][2]["overall_processing_status"] = Completed
    /\ pc # "done" => final = NoOutput
    /\ \A item \in table \ {OtherItem} : \E i \in DOMAIN putLog : putLog[i] = item

\* C12: overall_processing_status COMPLETED is reported only by
\* store-results and only when its put_item went through: no state handed
\* between the earlier stages carries the field; an invocation of
\* store-results hands at most one item to put_item; when it reports
\* COMPLETED that item is in the table; when the write fails the invocation
\* raises, returns no state, reports nothing and leaves the table as it was.
C12_CompletedOnlyAfterWrite ==
    /\ []CompletedOnlyWhenStored
    /\ [][ StoreStep =>
             /\ Len(putLog') \in {Len(putLog), Len(putLog) + 1}
             /\ SubSeq(putLog', 1, Len(putLog)) = putLog
             /\ IF final' # NoOutput
                THEN /\ pc' = "done" /\ raised' = NoError
                     /\ Len(putLog') = Len(putLog) + 1
                     /\ putLog'[Len(putLog')] \in table'
                ELSE /\ pc' = "failed" /\ raised' # NoError
                     /\ table' = table ]_vars

\* C12 witness: put_item was called and failed: the stage raised, no state
\* and no COMPLETED came back, and the item is not in the table
C12_Witness_WriteFailed ==
    /\ pc = "failed"
    /\ raised.type = "ClientError"
    /\ putLog # <<>>
    /\ putLog[Len(putLog)] \notin table
    /\ final = NoOutput

-----------------------------------------------------------------------------
(* Thumbnail keys *)

\* the key under which the thumbnail of `source` for `box` in `format`
\* belongs when the whole identifier, path included, is kept and only the
\* extension of its last segment is dropped
WholeKeyThumbnail(source, box, format) ==
    Chars_thumbnails \o SplitExt(source)[1] \o <<"_">> \o Str(box[1]) \o <<"x">>
        \o Str(box[2]) \o <<".">> \o Lower(format)

\* C14: every thumbnail is uploaded under
\* thumbnails/{baseName}_{width}x{height}.{ext}, baseName being the whole
\* decoded source key, path segments included, less the extension of its
\* last segment; and the location recorded for the box names that key.
C14_KeyKeepsWholeIdentifier ==
    /\ \A o \in uploaded : o.key = WholeKeyThumbnail(DecodedOnce, o.box, o.format)
    /\ "thumbnails" \in DOMAIN state =>
          \A box \in ConfiguredBoxes :
             \E o \in uploaded :
                /\ o.box = box
                /\ state["thumbnails"][2][Str(box[1]) \o <<"x">> \o Str(box[2])]
                      = PyStr(Chars_s3 \o o.bucket \o <<"/">>
                              \o WholeKeyThumbnail(DecodedOnce, box, o.format))

-----------------------------------------------------------------------------
(* Label detection *)

\* the detect_labels requests made, each with the answer it got
LabelRequests == {reads[i] : i \in {j \in DOMAIN reads : reads[j].op = "detect_labels"}}

\* the object extract-metadata asks for is in the bucket and is an image
SourceReadable == unquote_plus(state["s3_key"][2]) \in objects /\ image.decodable

\* the state carries the intrinsic metadata of the image, status SUCCESS
IntrinsicMetadataEmitted ==
    /\ pc = "store"
    /\ {"extracted_metadata", "metadata_extraction_status"} \subseteq DOMAIN state
    /\ state["metadata_extraction_status"] = PyStr("SUCCESS")
    /\ LET metadata == state["extracted_metadata"][2]
       IN  /\ {"filename", "filesize_bytes", "format", "width_pixels",
               "height_pixels", "mode"} \subseteq DOMAIN metadata
           /\ metadata["width_pixels"] = PyInt(image.width)
           /\ metadata["height_pixels"] = PyInt(image.height)
           /\ metadata["mode"] = PyStr(image.mode)
           /\ metadata["filesize_bytes"] = PyInt(image.bytes)

\* what extract-metadata leaves behind, the failure of detect_labels being
\* recorded under `field`
LabelFailureRecordedUnder(field) ==
    pc # "metadata" =>
        /\ SourceReadable <=> IntrinsicMetadataEmitted
        /\ ~ SourceReadable =>
              /\ pc = "failed" /\ raised # NoError
              /\ "extracted_metadata" \notin DOMAIN state
              /\ "metadata_extraction_status" \notin DOMAIN state
              /\ LabelRequests = {}
        /\ (SourceReadable /\ env.USE_REKOGNITION) => Cardinality(LabelRequests) = 1
        /\ \A request \in LabelRequests :
              LET metadata == state["extracted_metadata"][2]
              IN  /\ IntrinsicMetadataEmitted
                  /\ request.answer[1] = "error" =>
                        /\ field \in DOMAIN metadata
                        /\ metadata[field] = PyStr(request.answer[2])
                        /\ "rekognition_labels" \notin DOMAIN metadata
                  /\ request.answer[1] = "labels" =>
                        /\ field \notin DOMAIN metadata
                        /\ "rekognition_labels" \in DOMAIN metadata
                        /\ Len(metadata["rekognition_labels"][2]) = Len(request.answer[2])

-----------------------------------------------------------------------------
(* State accumulation *)

ValidatorFields == {"s3_bucket", "s3_key", "image_type", "validation_status"}
ThumbnailFields == {"thumbnails", "thumbnail_generation_status"}
MetadataFields == {"extracted_metadata", "metadata_extraction_status"}
StoreFields == {"dynamodb_storage_status", "overall_processing_status"}

\* the fields a state holds when the orchestrator is at `stage`
FieldsAt(stage) ==
    CASE stage = "thumbnails" -> ValidatorFields
      [] stage = "metadata" -> ValidatorFields \cup ThumbnailFields
      [] stage \in {"store", "done"} ->
            ValidatorFields \cup ThumbnailFields \cup MetadataFields
      [] OTHER -> {}

\* s carries what the validator read from the trigger
CarriesValidated(s) ==
    /\ ValidatorFields \subseteq DOMAIN s
    /\ s["s3_bucket"] = trigger["bucket"][2]["name"]
    /\ s["s3_key"] = PyStr(DecodedOnce)
    /\ s["image_type"] = PyStr(SupportedExtensionOf(DecodedOnce))
    /\ s["validation_status"] = PyStr("SUCCESS")

\* every field of s is in t with the same value
Extends(t, s) == \A f \in DOMAIN s : f \in DOMAIN t /\ t[f] = s[f]

Accumulated ==
    /\ DOMAIN state # {} => CarriesValidated(state)
    /\ pc \in {"thumbnails", "metadata", "store", "done"} => DOMAIN state = FieldsAt(pc)
    /\ final # NoOutput =>
          /\ Extends(final, state)
          /\ DOMAIN final = DOMAIN state \cup StoreFields
          /\ CarriesValidated(final)

\* C18: each of generate-thumbnails, extract-metadata and store-results
\* returns, on success, every field of its input unchanged plus its own
\* contribution and status fields and nothing else: at every point of a run
\* the bucket, key, image_type and validation_status are those the
\* validator emitted, and no step removes or alters a field that an
\* earlier stage wrote.
C18_StateAccumulates ==
    /\ []Accumulated
    /\ [][ /\ Extends(state', state)
           /\ pc = "thumbnails" => DOMAIN state' \ DOMAIN state \subseteq ThumbnailFields
           /\ pc = "metadata" => DOMAIN state' \ DOMAIN state \subseteq MetadataFields
           /\ pc \in {"store", "done", "failed"} => state' = state ]_vars

\* C18 witness: a run went through all four stages for an upper-case .PNG
\* key and the final state still holds what the validator wrote
C18_Witness_AllStages ==
    /\ pc = "done"
    /\ final # NoOutput
    /\ DOMAIN final = ValidatorFields \cup ThumbnailFields \cup MetadataFields
                         \cup StoreFields
    /\ final["image_type"] = PyStr(Chars_png)
    /\ EndsWith(DecodedOnce, <<".", "P", "N", "G">>)

-----------------------------------------------------------------------------
(* Concurrent runs *)

\* the decoded source key of run r
SourceOf(r) == unquote_plus(RawKeyOf(trigger[r]))

\* the keys run r wrote with operation op
WrittenBy(r, op) ==
    {reads[i].key : i \in {j \in DOMAIN reads : reads[j].run = r /\ reads[j].op = op}}

\* the items handed to put_item under ImageKey `key`
HandedOver(key) ==
    {putLog[i] : i \in {j \in DOMAIN putLog : putLog[j][2]["ImageKey"] = PyStr(key)}}

\* C13: two runs at once for different images (different decoded source
\* keys) write no thumbnail key and no table key in common, however their
\* steps interleave; two runs for the same image that both finish leave one
\* item under its key, the same but for its timestamps whichever wrote last.
C13_RunsNeverConflict ==
    /\ SourceOf(1) # SourceOf(2) =>
          /\ WrittenBy(1, "put_object") \cap WrittenBy(2, "put_object") = {}
          /\ WrittenBy(1, "put_item") \cap WrittenBy(2, "put_item") = {}
    /\ (SourceOf(1) = SourceOf(2) /\ pc = <<"done", "done">>) =>
          /\ Cardinality({i \in table : i[2]["ImageKey"] = PyStr(SourceOf(1))}) = 1
          /\ \A a \in HandedOver(SourceOf(1)), b \in HandedOver(SourceOf(1)) :
                \A f \in DOMAIN a[2] \ {"created_at", "updated_at"} : a[2][f] = b[2][f]

====
